---- MODULE Spec2Model ----
(***************************************************************************)
(* A model of the image compression utility (compressImage, smartCompress) *)
(* and of the Firebase Storage -> Cloudinary migration utility             *)
(* (migrateProductToCloudinary, migrateAllToCloudinary) with the upload    *)
(* helper uploadFromUrl they call.                                         *)
(* The product store and authentication of lib/supabase.ts (addProduct,    *)
(* updateProduct, deleteProduct, signUp, signIn, signOut) are modelled too.*)
(*                                                                         *)
(* Units.  Byte sizes are counted in KB (blob.size / 1024); the sizes the  *)
(* model draws are whole KB.  A quality factor q of the code is the        *)
(* integer q * 10^6 (0.9 is 900000).  Image dimensions computed by the     *)
(* resize step are doubles, held as a fraction and a rounding direction.   *)
(***************************************************************************)
EXTENDS Integers, Sequences, FiniteSets, TLC

VARIABLES
    \* ---- smartCompress / compressImage
    call,           \* 1: the first smartCompress call, 2: a call on the file the first returned
    file,           \* the input File: [size, width, height] (size in KB, intrinsic pixels)
    targetSizeKB,   \* smartCompress's targetSizeKB argument
    quality,        \* smartCompress's local "quality"
    attempt,        \* smartCompress's local "attempt"
    pc,             \* where the smartCompress call stands
    phase,          \* "loop": the call in flight is the retry loop's, "fallback": the last one
    options,        \* the options of the compressImage call in flight
    width,          \* compressImage's local "width" after the resize step
    height,         \* compressImage's local "height" after the resize step
    canvas,         \* the canvas element: [width, height], whole pixels
    encQ,           \* the quality argument of the latest canvas.toBlob call
    result,         \* the CompressionResult the call in flight resolved with
    returned,       \* what smartCompress returned to its caller
    loads,          \* number of img.src assignments (decodes started)
    loadErrors,     \* number of img.onerror events
    encodes,        \* number of canvas.toBlob calls
    blobs,          \* number of toBlob callbacks that received a blob
    best,           \* smallest compressedSize among the results resolved so far (0: none)
    \* ---- migration
    entry,          \* the entry point in flight: "all", "test", or "none"
    db,             \* whether the Firestore handle "db" is non-null
    apiSecret,      \* whether API_SECRET (VITE_CLOUDINARY_API_SECRET) is set
    docs,           \* the "products" collection: sequence of documents
    productsToMigrate, \* migrateAllToCloudinary's filtered list of products
    i,              \* the loop index of migrateAllToCloudinary (0-based)
    results,        \* migrateAllToCloudinary's "results" object
    mpc,            \* where the migration call stands
    firebaseUrl,    \* migrateProductToCloudinary's local "firebaseUrl"
    cloudinaryUrl,  \* migrateProductToCloudinary's local "cloudinaryUrl"
    processed,      \* the products migrateProductToCloudinary was called for, in call order
    requests,       \* the CDN upload requests and delays, in the order they happened
    thrown,         \* the products whose migrateProductToCloudinary call threw, in order
    \* ---- product store and authentication (lib/supabase.ts)
    currentUser,    \* whether auth.currentUser is non-null
    apc,            \* where the authentication call in flight stands
    aop,            \* the latest authentication call: [kind, cred]
    aoutcome,       \* how that call ended: "none", "returned", "threw"
    awaited,        \* whether the caller awaits each call before the next
    products,       \* the "products" collection seen by id: image_url, or Absent
    spc,            \* where the product operation in flight stands
    sop,            \* the latest product operation called: [kind, id, url]
    outcome,        \* how that operation ended: "none", "returned", "threw"
    imageOutcome    \* the image deletion of the deleteProduct call in flight

compressVars == <<call, file, targetSizeKB, quality, attempt, pc, phase, options, width,
                  height, canvas, encQ, result, returned, loads, loadErrors,
                  encodes, blobs, best>>
migrateVars == <<entry, db, apiSecret, docs, productsToMigrate, i, results, mpc, firebaseUrl,
                 cloudinaryUrl, processed, requests, thrown>>
storeVars == <<currentUser, apc, aop, aoutcome, awaited, products, spc, sop, outcome,
              imageOutcome>>
vars == <<compressVars, migrateVars, storeVars>>

Min(a, b) == IF a < b THEN a ELSE b
Max(a, b) == IF a > b THEN a ELSE b

(***************************************************************************)
(* compressImage: defaults and the resize step                             *)
(***************************************************************************)
defaultMaxWidth == 1920
defaultMaxHeight == 1080
defaultMaxSizeKB == 500
\* 0.1, the floor of every quality reduction
minQuality == 100000
\* 0.9, smartCompress's starting quality
initialQuality == 900000
maxAttempts == 5

(***************************************************************************)
(* Dimensions.  The code computes them in IEEE 754 doubles.  A dimension   *)
(* is the record [n, d, ulp]: the double the code holds is the one nearest *)
(* to n/d when ulp = 0, and the next double below (ulp = -1) or above      *)
(* (ulp = 1) the whole number n/d otherwise.  Only a whole n/d can be      *)
(* missed: a fractional n/d is at least 1/d away from every whole number,  *)
(* far more than the rounding error.                                       *)
(***************************************************************************)
Whole(k) == [n |-> k, d |-> 1, ulp |-> 0]
\* the value a dimension takes when assigned to canvas.width / canvas.height
\* (the conversion to an unsigned long drops the fraction)
Truncate(r) ==
    IF r.ulp = -1 /\ r.n % r.d = 0 THEN (r.n \div r.d) - 1 ELSE r.n \div r.d

mantissaBits == 52
\* image sides are below 2^maxExponent pixels
maxExponent == 13

\* the binary exponent of n/d: the e with 2^e <= n/d < 2^(e+1)
Exponent(n, d) ==
    CHOOSE e \in -maxExponent..maxExponent :
        IF e >= 0 THEN d * 2^e <= n /\ n < d * 2^(e + 1)
        ELSE d <= n * 2^(-e) /\ n * 2^(-e) < 2 * d

\* 2^k modulo den, by squaring twice (k <= 4 * maxExponent)
ModPow2(k, den) ==
    LET a == 2^(k \div 4) % den
        b == (a * a) % den
        c == (b * b) % den
    IN  (c * 2^(k % 4)) % den

\* long division of num/den (in [1, 2)) to the 53 bits of a double: the
\* remainder after the last bit and that bit.  After k bits the remainder
\* is (num - den) * 2^k modulo den.
Divide(num, den) ==
    LET before == ((num - den) * ModPow2(mantissaBits - 1, den)) % den
    IN  [r |-> (2 * before) % den, last |-> IF 2 * before >= den THEN 1 ELSE 0]

\* w/h scaled by a power of two into [1, 2)
Scaled(w, h) ==
    LET e == Exponent(w, h)
    IN  [num |-> IF e >= 0 THEN w ELSE w * 2^(-e),
         den |-> IF e >= 0 THEN h * 2^e ELSE h]

\* the double nearest to s.num/s.den (ties to even), given the division q:
\* dir tells whether the double is below (-1), at (0) or above (1) the
\* quotient, and t/den is the distance in units of the last place
Nearest(s, q) ==
    IF q.r = 0 THEN [num |-> s.num, den |-> s.den, dir |-> 0, t |-> 0]
    ELSE IF 2 * q.r > s.den \/ (2 * q.r = s.den /\ q.last = 1)
    THEN [num |-> s.num, den |-> s.den, dir |-> 1, t |-> s.den - q.r]
    ELSE [num |-> s.num, den |-> s.den, dir |-> -1, t |-> q.r]

\* line 351: aspectRatio = width / height, rounded to the nearest double
aspectRatio(w, h) ==
    CHOOSE ar \in {Nearest(s, Divide(s.num, s.den)) : s \in {Scaled(w, h)}} : TRUE

\* the double nearest to x * (w/h) / aspectRatio (sign = -1) or to
\* x * aspectRatio / (w/h) (sign = 1) for a whole x: the error of aspectRatio
\* moves the exact result away from x by t * x / (num * 2^Exponent(x)) units
\* of x's last place; the result is x unless that is more than half a unit
\* (a quarter below a power of two, where the doubles are twice as dense)
Rounded(x, ar, sign) ==
    LET ex == Exponent(x, 1)
        dense == sign * ar.dir = -1 /\ x = 2^ex
        moved == 2 * x * ar.t * (IF dense THEN 2 ELSE 1)
    IN  IF ar.dir # 0 /\ moved > 2^ex * ar.num THEN sign * ar.dir ELSE 0

\* lines 355, 358: len / aspectRatio and len * aspectRatio, for an image of
\* w x h pixels
DivideByRatio(len, w, h) ==
    LET n == len * h
    IN  [n |-> n, d |-> w,
         ulp |-> IF n % w = 0 /\ n > 0
                 THEN CHOOSE u \in {Rounded(n \div w, ar, -1) :
                                      ar \in {aspectRatio(w, h)}} : TRUE
                 ELSE 0]

TimesRatio(len, w, h) ==
    LET n == len * w
    IN  [n |-> n, d |-> h,
         ulp |-> IF n % h = 0 /\ n > 0
                 THEN CHOOSE u \in {Rounded(n \div h, ar, 1) :
                                      ar \in {aspectRatio(w, h)}} : TRUE
                 ELSE 0]

\* the resize step clamping each axis on its own, without the aspect ratio
ResizeClampEach(w, h, maxWidth, maxHeight) ==
    [width |-> Whole(Min(maxWidth, w)), height |-> Whole(Min(maxHeight, h))]

\* the resize step with "maxWidth" and "maxHeight" in place of the Math.min calls
ResizeToMax(w, h, maxWidth, maxHeight) ==
    IF w > maxWidth \/ h > maxHeight
    THEN IF w > h
         THEN [width |-> Whole(maxWidth), height |-> DivideByRatio(maxWidth, w, h)]
         ELSE [width |-> TimesRatio(maxHeight, w, h), height |-> Whole(maxHeight)]
    ELSE [width |-> Whole(w), height |-> Whole(h)]

\* lines 348-360: new dimensions for an image of w x h pixels
Resize(w, h, maxWidth, maxHeight) ==
    IF w > maxWidth \/ h > maxHeight
    THEN IF w > h
         THEN \* width = min(maxWidth, width); height = width / aspectRatio
              LET nw == Min(maxWidth, w)
              IN  [width |-> Whole(nw), height |-> DivideByRatio(nw, w, h)]
         ELSE \* height = min(maxHeight, height); width = height * aspectRatio
              LET nh == Min(maxHeight, h)
              IN  [width |-> TimesRatio(nh, w, h), height |-> Whole(nh)]
    ELSE [width |-> Whole(w), height |-> Whole(h)]

\* line 383 without the Math.max(0.1, ...) floor
NewQualityNoFloor(q, maxSizeKB, compressedSizeKB) ==
    (q * maxSizeKB) \div compressedSizeKB

\* line 383: Math.max(0.1, quality * (maxSizeKB / compressedSizeKB))
NewQuality(q, maxSizeKB, compressedSizeKB) ==
    Max(minQuality, (q * maxSizeKB) \div compressedSizeKB)

\* lines 499, 507: Math.max(0.1, quality * 0.7)
ReduceQuality(q) == Max(minQuality, (q * 7) \div 10)

\* the check of line 493 without the 10% tolerance
WithinToleranceNoSlack(sizeKB, target) == sizeKB <= target

\* line 493: resultSizeKB <= targetSizeKB * 1.1
WithinTolerance(sizeKB, target) == sizeKB * 10 <= target * 11

\* lines 398-405, 425-432: the CompressionResult built from a blob
CompressionResult(blobKB) ==
    [file |-> "compressed", originalSize |-> file.size, compressedSize |-> blobKB,
     width |-> width, height |-> height]

\* lines 516-523: the result that carries the original file
OriginalResult ==
    [file |-> "original", originalSize |-> file.size, compressedSize |-> file.size,
     width |-> Whole(0), height |-> Whole(0)]

NoResult ==
    [file |-> "none", originalSize |-> 0, compressedSize |-> 0,
     width |-> Whole(0), height |-> Whole(0)]

NoOptions == [maxWidth |-> 0, maxHeight |-> 0, quality |-> 0, format |-> "none",
              maxSizeKB |-> 0]

\* getRecommendedOptions with ">=" in place of ">" in the three size tests
getRecommendedOptionsInclusive(sizeKB) ==
    IF sizeKB >= 5 * 1024
    THEN [maxWidth |-> 1920, maxHeight |-> 1080, quality |-> 600000,
          format |-> "jpeg", maxSizeKB |-> 300]
    ELSE IF sizeKB >= 2 * 1024
    THEN [maxWidth |-> 1920, maxHeight |-> 1080, quality |-> 700000,
          format |-> "jpeg", maxSizeKB |-> 400]
    ELSE IF sizeKB >= 1 * 1024
    THEN [maxWidth |-> 1920, maxHeight |-> 1080, quality |-> 800000,
          format |-> "jpeg", maxSizeKB |-> 500]
    ELSE [maxWidth |-> 1920, maxHeight |-> 1080, quality |-> 900000,
          format |-> "jpeg", maxSizeKB |-> 600]

\* lines 543-579: getRecommendedOptions for a file of sizeKB (sizeMB = sizeKB / 1024)
getRecommendedOptions(sizeKB) ==
    IF sizeKB > 5 * 1024
    THEN [maxWidth |-> 1920, maxHeight |-> 1080, quality |-> 600000,
          format |-> "jpeg", maxSizeKB |-> 300]
    ELSE IF sizeKB > 2 * 1024
    THEN [maxWidth |-> 1920, maxHeight |-> 1080, quality |-> 700000,
          format |-> "jpeg", maxSizeKB |-> 400]
    ELSE IF sizeKB > 1 * 1024
    THEN [maxWidth |-> 1920, maxHeight |-> 1080, quality |-> 800000,
          format |-> "jpeg", maxSizeKB |-> 500]
    ELSE [maxWidth |-> 1920, maxHeight |-> 1080, quality |-> 900000,
          format |-> "jpeg", maxSizeKB |-> 600]

(***************************************************************************)
(* Inputs                                                                  *)
(***************************************************************************)
FileSizesKB == {200, 400, 5120}
ImageDims == {<<800, 600>>, <<1500, 1200>>, <<4000, 3000>>, <<1000, 3000>>,
              <<2048, 1584>>, <<1094, 1090>>}
TargetsKB == {300, 500}
\* the sizes canvas.toBlob may hand to its callback; 0 stands for a null blob
BlobSizesKB == {250, 330, 331, 550, 551, 900}
NullBlob == 0


(***************************************************************************)
(* smartCompress: the state after lines 470-478                            *)
(***************************************************************************)
\* the number of document ids the store model draws from
MaxStoreProducts == 2

\* an absent document, and a call record before any call
Absent == "absent"
NoCall == [kind |-> "none", id |-> 0, url |-> "null"]
NoAuthCall == [kind |-> "none", cred |-> "none"]

\* no store operation is called; nobody is signed in and the store is empty
StoreIdle ==
    /\ currentUser = FALSE
    /\ apc = "idle"
    /\ aop = NoAuthCall
    /\ aoutcome = "none"
    /\ awaited = FALSE
    /\ products = [k \in 1..MaxStoreProducts |-> Absent]
    /\ spc = "idle"
    /\ sop = NoCall
    /\ outcome = "none"
    /\ imageOutcome = "none"

MigrateIdle ==
    /\ entry = "none"
    /\ db = TRUE
    /\ apiSecret = TRUE
    /\ docs = <<>>
    /\ productsToMigrate = <<>>
    /\ i = 0
    /\ results = [total |-> 0, migrated |-> 0, skipped |-> 0, failed |-> 0,
                  errors |-> <<>>]
    /\ mpc = "idle"
    /\ firebaseUrl = "null"
    /\ cloudinaryUrl = "null"
    /\ processed = <<>>
    /\ requests = <<>>
    /\ thrown = <<>>

Init ==
    /\ call = 1
    /\ file \in {[size |-> s, width |-> wh[1], height |-> wh[2]] :
                   s \in FileSizesKB, wh \in ImageDims}
    /\ targetSizeKB \in TargetsKB
    /\ quality = initialQuality
    /\ attempt = 0
    /\ pc = "loop"
    /\ phase = "loop"
    /\ options = NoOptions
    /\ width = Whole(0)
    /\ height = Whole(0)
    /\ canvas = [width |-> 0, height |-> 0]
    /\ encQ = 0
    /\ result = NoResult
    /\ returned = NoResult
    /\ loads = 0
    /\ loadErrors = 0
    /\ encodes = 0
    /\ blobs = 0
    /\ best = 0
    /\ MigrateIdle
    /\ StoreIdle

\* line 341: document.createElement('canvas') yields a new canvas element at
\* every compressImage call; a new canvas is 300 pixels wide and 150 high
\* until its width and height are assigned
newCanvas == [width |-> 300, height |-> 150]

\* lines 340-343, 456: compressImage creates the canvas and the Image and sets
\* img.src; the decode is under way when it returns its promise
StartCompressImage(opts, ph) ==
    /\ options' = opts
    /\ phase' = ph
    /\ canvas' = newCanvas
    /\ loads' = loads + 1
    /\ result' = NoResult
    /\ pc' = "decoding"

\* lines 480-488: the loop test holds; compressImage is called with the
\* current quality and the target as maxSizeKB
LoopCall ==
    /\ pc = "loop"
    /\ attempt < maxAttempts
    /\ StartCompressImage([maxWidth |-> 1920, maxHeight |-> 1080,
                           quality |-> quality, format |-> "jpeg",
                           maxSizeKB |-> targetSizeKB], "loop")
    /\ UNCHANGED <<call, file, targetSizeKB, quality, attempt, width, height, encQ, returned, loadErrors, encodes, blobs, best>>
    /\ UNCHANGED <<migrateVars, storeVars>>

\* lines 511-513: the loop is over; compressImage(file, { quality: 0.1 }) with
\* every other option at its default
FallbackCall ==
    /\ pc = "loop"
    /\ ~(attempt < maxAttempts)
    /\ StartCompressImage([maxWidth |-> defaultMaxWidth, maxHeight |-> defaultMaxHeight,
                           quality |-> minQuality, format |-> "jpeg",
                           maxSizeKB |-> defaultMaxSizeKB],
                          "fallback")
    /\ UNCHANGED <<call, file, targetSizeKB, quality, attempt, width, height, encQ, returned, loadErrors, encodes, blobs, best>>
    /\ UNCHANGED <<migrateVars, storeVars>>

\* lines 345-370, 444-446: img.onload resizes, sizes the canvas, draws, and
\* calls canvas.toBlob with options.quality
ImgOnLoad ==
    /\ pc = "decoding"
    /\ \E r \in {Resize(file.width, file.height, options.maxWidth, options.maxHeight)} :
           /\ width' = r.width
           /\ height' = r.height
           /\ canvas' = [width |-> Truncate(r.width), height |-> Truncate(r.height)]
    /\ encQ' = options.quality
    /\ encodes' = encodes + 1
    /\ pc' = "encoding"
    /\ UNCHANGED <<call, file, targetSizeKB, quality, attempt, phase, options, result,
                   returned, loads, loadErrors, blobs, best>>
    /\ UNCHANGED <<migrateVars, storeVars>>

\* an img.onerror that goes on to draw and encode the undecoded image
ImgOnErrorEncodes ==
    /\ pc = "decoding"
    /\ loadErrors' = loadErrors + 1
    /\ encQ' = options.quality
    /\ encodes' = encodes + 1
    /\ pc' = "encoding"
    /\ UNCHANGED <<call, file, targetSizeKB, quality, attempt, phase, options, width,
                   height, canvas, result, returned, loads, blobs, best>>
    /\ UNCHANGED <<migrateVars, storeVars>>

\* lines 452-454: img.onerror rejects the promise
ImgOnError ==
    /\ pc = "decoding"
    /\ loadErrors' = loadErrors + 1
    /\ pc' = "rejected"
    /\ UNCHANGED <<call, file, targetSizeKB, quality, attempt, phase, options, width,
                   height, canvas, encQ, result, returned, loads, encodes, blobs,
                   best>>
    /\ UNCHANGED <<migrateVars, storeVars>>

\* the promise of compressImage resolves with the result built from blobKB
Resolve(blobKB) ==
    /\ result' = CompressionResult(blobKB)
    /\ best' = IF best = 0 THEN blobKB ELSE Min(best, blobKB)
    /\ pc' = "resolved"

\* lines 371-443: the callback of the first toBlob call
ToBlobCallback(blob) ==
    /\ pc = "encoding"
    /\ IF blob = NullBlob
       THEN \* lines 372-375
            /\ pc' = "rejected"
            /\ UNCHANGED <<encQ, encodes, blobs, result, best>>
       ELSE IF blob > options.maxSizeKB
       THEN \* lines 381-386, 416-418: a second toBlob call at newQuality
            /\ encQ' = NewQuality(options.quality, options.maxSizeKB, blob)
            /\ encodes' = encodes + 1
            /\ blobs' = blobs + 1
            /\ pc' = "encodingFurther"
            /\ UNCHANGED <<result, best>>
       ELSE \* lines 419-442
            /\ Resolve(blob)
            /\ blobs' = blobs + 1
            /\ UNCHANGED <<encQ, encodes>>
    /\ UNCHANGED <<call, file, targetSizeKB, quality, attempt, phase, options, width,
                   height, canvas, returned, loads, loadErrors>>
    /\ UNCHANGED <<migrateVars, storeVars>>

\* lines 387-415: the callback of the second toBlob call
ToBlobFurtherCallback(finalBlobCompressed) ==
    /\ pc = "encodingFurther"
    /\ IF finalBlobCompressed = NullBlob
       THEN \* lines 388-391
            /\ pc' = "rejected"
            /\ UNCHANGED <<blobs, result, best>>
       ELSE /\ Resolve(finalBlobCompressed)
            /\ blobs' = blobs + 1
    /\ UNCHANGED <<call, file, targetSizeKB, quality, attempt, phase, options, width,
                   height, canvas, encQ, returned, loads, loadErrors, encodes>>
    /\ UNCHANGED <<migrateVars, storeVars>>

\* lines 490-502 (loop) and 513 (fallback): smartCompress resumes with the result
OnResult ==
    /\ pc = "resolved"
    /\ IF phase = "loop"
       THEN IF WithinTolerance(result.compressedSize, targetSizeKB)
            THEN /\ returned' = result
                 /\ pc' = "done"
                 /\ UNCHANGED <<quality, attempt>>
            ELSE /\ quality' = ReduceQuality(quality)
                 /\ attempt' = attempt + 1
                 /\ pc' = "loop"
                 /\ UNCHANGED returned
       ELSE /\ returned' = result
            /\ pc' = "done"
            /\ UNCHANGED <<quality, attempt>>
    /\ UNCHANGED <<call, file, targetSizeKB, phase, options, width, height, canvas,
                   encQ, result, loads, loadErrors, encodes, blobs, best>>
    /\ UNCHANGED <<migrateVars, storeVars>>

\* the catch of lines 504-508 without "attempt++"
OnErrorNoCount ==
    /\ pc = "rejected"
    /\ IF phase = "loop"
       THEN /\ quality' = ReduceQuality(quality)
            /\ pc' = "loop"
            /\ UNCHANGED <<returned, attempt>>
       ELSE /\ returned' = OriginalResult
            /\ pc' = "done"
            /\ UNCHANGED <<quality, attempt>>
    /\ UNCHANGED <<call, file, targetSizeKB, phase, options, width, height, canvas,
                   encQ, result, loads, loadErrors, encodes, blobs, best>>
    /\ UNCHANGED <<migrateVars, storeVars>>

\* lines 504-508 (loop) and 514-523 (fallback): smartCompress resumes in a catch
OnError ==
    /\ pc = "rejected"
    /\ IF phase = "loop"
       THEN /\ attempt' = attempt + 1
            /\ quality' = ReduceQuality(quality)
            /\ pc' = "loop"
            /\ UNCHANGED returned
       ELSE /\ returned' = OriginalResult
            /\ pc' = "done"
            /\ UNCHANGED <<quality, attempt>>
    /\ UNCHANGED <<call, file, targetSizeKB, phase, options, width, height, canvas,
                   encQ, result, loads, loadErrors, encodes, blobs, best>>
    /\ UNCHANGED <<migrateVars, storeVars>>

Next ==
    \/ LoopCall
    \/ FallbackCall
    \/ ImgOnLoad
    \/ ImgOnError
    \/ \E blob \in BlobSizesKB \cup {NullBlob} : ToBlobCallback(blob)
    \/ \E blob \in BlobSizesKB \cup {NullBlob} : ToBlobFurtherCallback(blob)
    \/ OnResult
    \/ OnError

Spec == Init /\ [][Next]_vars

\* lines 466-478, entered a second time: the caller passes the File of the
\* result that met the ceiling to smartCompress again, with the same target.
\* That file holds the blob of the canvas: its pixels are the canvas's.
Reapply ==
    /\ pc = "done"
    /\ call = 1
    /\ returned.file = "compressed"
    /\ WithinTolerance(returned.compressedSize, targetSizeKB)
    /\ call' = 2
    /\ file' = [size |-> returned.compressedSize, width |-> canvas.width,
                height |-> canvas.height]
    /\ quality' = initialQuality
    /\ attempt' = 0
    /\ pc' = "loop"
    /\ phase' = "loop"
    /\ options' = NoOptions
    /\ result' = NoResult
    /\ returned' = NoResult
    /\ loads' = 0
    /\ loadErrors' = 0
    /\ encodes' = 0
    /\ blobs' = 0
    /\ best' = 0
    /\ UNCHANGED <<targetSizeKB, width, height, canvas, encQ>>
    /\ UNCHANGED <<migrateVars, storeVars>>

ReapplyNext == Next \/ Reapply

(***************************************************************************)
(* The upload flow of IMAGE_COMPRESSION_GUIDE.md: the size check of        *)
(* needsCompression, then compressImage called on its own with the options *)
(* getRecommendedOptions gives for the file.                               *)
(***************************************************************************)
DirectFileSizesKB == {200, 500, 501, 1024, 1025, 2048, 2049, 5120, 5121}
DirectLengths == {1, 3, 52, 600, 1080, 1081, 1090, 1094, 1097, 1200, 1440, 1584,
                  1920, 1921, 2048, 3000, 4001}

DirectInit ==
    /\ call = 1
    /\ file \in {[size |-> s, width |-> w, height |-> h] :
                   s \in DirectFileSizesKB, w \in DirectLengths, h \in DirectLengths}
    /\ targetSizeKB = defaultMaxSizeKB
    /\ quality = initialQuality
    /\ attempt = 0
    /\ pc = "direct"
    /\ phase = "direct"
    /\ options = NoOptions
    /\ width = Whole(0)
    /\ height = Whole(0)
    /\ canvas = [width |-> 0, height |-> 0]
    /\ encQ = 0
    /\ result = NoResult
    /\ returned = NoResult
    /\ loads = 0
    /\ loadErrors = 0
    /\ encodes = 0
    /\ blobs = 0
    /\ best = 0
    /\ MigrateIdle
    /\ StoreIdle

\* lines 533-536: needsCompression(file, maxSizeKB = 500)
needsCompression(sizeKB, maxSizeKB) == sizeKB > maxSizeKB

\* the size check says no: the file is uploaded as it was selected
DirectSkip ==
    /\ pc = "direct"
    /\ ~needsCompression(file.size, defaultMaxSizeKB)
    /\ pc' = "asIs"
    /\ UNCHANGED <<call, file, targetSizeKB, quality, attempt, phase, options,
                   width, height, canvas, encQ, result, returned, loads,
                   loadErrors, encodes, blobs, best>>
    /\ UNCHANGED <<migrateVars, storeVars>>

\* the size check says yes: compressImage(file, getRecommendedOptions(file))
DirectCall ==
    /\ pc = "direct"
    /\ needsCompression(file.size, defaultMaxSizeKB)
    /\ StartCompressImage(getRecommendedOptions(file.size), "direct")
    /\ UNCHANGED <<call, file, targetSizeKB, quality, attempt, width, height,
                   encQ, returned, loadErrors, encodes, blobs, best>>
    /\ UNCHANGED <<migrateVars, storeVars>>

DirectNext ==
    \/ DirectSkip
    \/ DirectCall
    \/ ImgOnLoad
    \/ ImgOnError
    \/ \E blob \in BlobSizesKB \cup {NullBlob} : ToBlobCallback(blob)
    \/ \E blob \in BlobSizesKB \cup {NullBlob} : ToBlobFurtherCallback(blob)

DirectSpec == DirectInit /\ [][DirectNext]_vars

ReapplySpec == Init /\ [][ReapplyNext]_vars

\* every decode and encode callback eventually fires, and the awaiting
\* smartCompress call is eventually resumed
FairSpec == Spec /\ WF_vars(Next)


(***************************************************************************)
(* URLs.  The code classifies a URL by substring tests; the model draws    *)
(* URLs from a fixed set and classifies each as the tests would.           *)
(***************************************************************************)
\* a field that is undefined or null
NoUrl == "null"
\* a field holding the empty string
EmptyUrl == ""
FirebaseUrlA == "https://firebasestorage.googleapis.com/v0/b/gems/o/a.jpg"
FirebaseUrlB == "https://firebasestorage.googleapis.com/v0/b/gems/o/b.jpg"
CloudinaryUrlA == "https://res.cloudinary.com/dsgi4fbqu/image/upload/v1/products/a.jpg"
OtherUrlA == "https://example.com/a.jpg"
\* the secure_url of a fresh upload
SecureUrl == "https://res.cloudinary.com/dsgi4fbqu/image/upload/v2/products/new.jpg"

\* a download URL of Firebase Storage, with the query the storage path ends at
FirebaseUrlQ == "https://firebasestorage.googleapis.com/v0/b/gems/o/a.jpg?alt=media"
\* a CDN URL without an "/upload/<version>/" part
CloudinaryUrlBare == "https://cloudinary.com/logo.png"

\* the secure_url of a fresh upload of the bytes the proxy downloaded
SecureUrlProxy == "https://res.cloudinary.com/dsgi4fbqu/image/upload/v3/products/a.jpg"

\* cloudinary.ts line 291: url.includes('firebasestorage.googleapis.com') || url.includes('firebase')
isFirebaseStorageUrl(url) == url \in {FirebaseUrlA, FirebaseUrlB, FirebaseUrlQ}

\* line 124 and cloudinary.ts line 284: url.includes('cloudinary.com')
includesCloudinary(url) ==
    url \in {CloudinaryUrlA, CloudinaryUrlBare, SecureUrl, SecureUrlProxy}

\* cloudinary.ts 261-265: extractPublicId finds "/upload/<version>/<public id>"
hasPublicId(url) == url \in {CloudinaryUrlA, SecureUrl, SecureUrlProxy}

\* supabase.ts 255-258: the URL starts with the bucket's base URL and has a
\* path between "/o/" and "?"
hasStoragePath(url) == url \in {FirebaseUrlQ}

\* a field that is a non-empty string (the code's truthiness test)
Truthy(url) == url \notin {NoUrl, EmptyUrl}

\* lines 121-122: the product has a Firebase Storage URL in either field
hasFirebaseUrl(p) ==
    \/ (Truthy(p.old_firebase_url) /\ isFirebaseStorageUrl(p.old_firebase_url))
    \/ (Truthy(p.image_url) /\ isFirebaseStorageUrl(p.image_url))

\* line 124: "p.image_url.includes" throws a TypeError when image_url is
\* undefined or null; the empty string has the method and contains nothing
FilterThrows(p) == hasFirebaseUrl(p) /\ p.image_url = NoUrl

\* lines 118-125: the filter's predicate
NeedsMigration(p) == hasFirebaseUrl(p) /\ ~includesCloudinary(p.image_url)

\* Array.prototype.filter, keeping the order of the list
RECURSIVE Filter(_)
Filter(ps) ==
    IF ps = <<>> THEN <<>>
    ELSE IF NeedsMigration(Head(ps)) THEN <<Head(ps)>> \o Filter(Tail(ps))
    ELSE Filter(Tail(ps))

\* the choice of lines 30-36 taking image_url whether or not it is a
\* Firebase Storage URL
PickFirebaseUrlAny(p) ==
    IF Truthy(p.old_firebase_url) /\ isFirebaseStorageUrl(p.old_firebase_url)
    THEN p.old_firebase_url
    ELSE IF Truthy(p.image_url)
    THEN p.image_url
    ELSE NoUrl

\* lines 30-36: the URL migrateProductToCloudinary picks
PickFirebaseUrl(p) ==
    IF Truthy(p.old_firebase_url) /\ isFirebaseStorageUrl(p.old_firebase_url)
    THEN p.old_firebase_url
    ELSE IF Truthy(p.image_url) /\ isFirebaseStorageUrl(p.image_url)
    THEN p.image_url
    ELSE NoUrl

\* the update of lines 57-68 without the "old_firebase_url" assignment
UpdatedDocImageOnly(d, p, fbUrl, cdnUrl) ==
    [d EXCEPT !.image_url = cdnUrl]

\* lines 57-68: the document after updateDoc(productRef, updateData)
UpdatedDoc(d, p, fbUrl, cdnUrl) ==
    [d EXCEPT !.image_url = cdnUrl,
              !.old_firebase_url =
                  IF fbUrl = p.image_url /\ fbUrl # p.old_firebase_url
                  THEN fbUrl ELSE @]

(***************************************************************************)
(* Inputs of the migration                                                 *)
(***************************************************************************)
MaxProducts == 3

\* the (image_url, old_firebase_url) pairs a stored product may have
UrlPairs == {<<FirebaseUrlA, NoUrl>>, <<CloudinaryUrlA, FirebaseUrlA>>,
             <<OtherUrlA, FirebaseUrlA>>, <<OtherUrlA, NoUrl>>,
             <<NoUrl, FirebaseUrlA>>, <<FirebaseUrlB, FirebaseUrlA>>,
             <<FirebaseUrlA, FirebaseUrlA>>, <<EmptyUrl, FirebaseUrlA>>}

\* collections of n products; a product's id and name are its position
Collections(n) ==
    {[k \in 1..n |-> [id |-> k, name |-> k, image_url |-> f[k][1],
                      old_firebase_url |-> f[k][2]]] : f \in [1..n -> UrlPairs]}

CompressIdle ==
    /\ call = 1
    /\ file = [size |-> 0, width |-> 0, height |-> 0]
    /\ targetSizeKB = defaultMaxSizeKB
    /\ quality = initialQuality
    /\ attempt = 0
    /\ pc = "idle"
    /\ phase = "loop"
    /\ options = NoOptions
    /\ width = Whole(0)
    /\ height = Whole(0)
    /\ canvas = [width |-> 0, height |-> 0]
    /\ encQ = 0
    /\ result = NoResult
    /\ returned = NoResult
    /\ loads = 0
    /\ loadErrors = 0
    /\ encodes = 0
    /\ blobs = 0
    /\ best = 0

\* lines 95-101
NoResults == [total |-> 0, migrated |-> 0, skipped |-> 0, failed |-> 0,
              errors |-> <<>>]

MigrateInit ==
    /\ CompressIdle
    /\ StoreIdle
    /\ entry = "none"
    /\ db \in BOOLEAN
    /\ apiSecret \in BOOLEAN
    /\ docs \in UNION {Collections(n) : n \in 0..MaxProducts}
    /\ productsToMigrate = <<>>
    /\ i = 0
    /\ results = NoResults
    /\ mpc = "idle"
    /\ firebaseUrl = NoUrl
    /\ cloudinaryUrl = NoUrl
    /\ processed = <<>>
    /\ requests = <<>>
    /\ thrown = <<>>

\* entries of "requests": a POST to the CDN's upload endpoint for a product
\* (cloudinary.ts lines 39, 91), and an elapsed inter-item delay (line 147)
UploadRequest(id) == [kind |-> "upload", product |-> id]
DelayElapsed == [kind |-> "delay", product |-> 0]

\* the product of the current loop iteration (line 136)
product == productsToMigrate[i + 1]

(***************************************************************************)
(* migrateAllToCloudinary                                                  *)
(***************************************************************************)
\* lines 89-107: the call starts; without db it throws, else getDocs is awaited
MigrateAllStart ==
    /\ mpc = "idle"
    /\ entry' = "all"
    /\ results' = NoResults
    /\ mpc' = IF db THEN "getDocs" ELSE "thrown"
    /\ UNCHANGED <<db, apiSecret, docs, productsToMigrate, i, firebaseUrl,
                   cloudinaryUrl, processed, requests, thrown>>
    /\ UNCHANGED <<compressVars, storeVars>>

\* lines 109-132: the snapshot arrives; total is set, the list is filtered
GetDocsResolves ==
    /\ mpc = "getDocs"
    /\ IF \E k \in 1..Len(docs) : FilterThrows(docs[k])
       THEN \* the TypeError reaches the catch of line 184
            /\ results' = [results EXCEPT !.total = Len(docs)]
            /\ mpc' = "thrown"
            /\ UNCHANGED <<productsToMigrate, i>>
       ELSE /\ results' = [results EXCEPT !.total = Len(docs)]
            /\ productsToMigrate' = Filter(docs)
            /\ i' = 0
            /\ mpc' = IF Len(Filter(docs)) = 0 THEN "done" ELSE "iterate"
    /\ UNCHANGED <<entry, db, apiSecret, docs, firebaseUrl, cloudinaryUrl, processed,
                   requests, thrown>>
    /\ UNCHANGED <<compressVars, storeVars>>

\* lines 107, 184-187: getDocs rejects
GetDocsRejects ==
    /\ mpc = "getDocs"
    /\ mpc' = "thrown"
    /\ UNCHANGED <<entry, db, apiSecret, docs, productsToMigrate, i, results,
                   firebaseUrl, cloudinaryUrl, processed, requests, thrown>>
    /\ UNCHANGED <<compressVars, storeVars>>

\* lines 141-148: migrateProductToCloudinary returned; the product counts as
\* migrated and, unless it was the last, the 2 s delay starts
Migrated ==
    /\ results' = [results EXCEPT !.migrated = @ + 1]
    /\ IF i < Len(productsToMigrate) - 1
       THEN mpc' = "delay" /\ i' = i
       ELSE mpc' = "iterate" /\ i' = i + 1

\* the catch of lines 149-155 rethrowing instead of going on
FailedAborts(message) ==
    /\ results' = [results EXCEPT
                     !.failed = @ + 1,
                     !.errors = Append(@, [product |-> product.name,
                                           error |-> message])]
    /\ i' = i
    /\ mpc' = "thrown"

\* the catch of lines 149-155 without the push onto results.errors
FailedNoPush(message) ==
    /\ results' = [results EXCEPT !.failed = @ + 1]
    /\ i' = i + 1
    /\ mpc' = "iterate"

\* lines 73-76, 149-155: migrateProductToCloudinary threw; the failure is
\* recorded and the loop goes on
Failed(message) ==
    /\ results' = [results EXCEPT
                     !.failed = @ + 1,
                     !.errors = Append(@, [product |-> product.name,
                                           error |-> message])]
    /\ i' = i + 1
    /\ mpc' = "iterate"

\* lines 226-227: migrateProductToCloudinary returned to testCloudinaryMigration,
\* which returns
TestMigrated ==
    /\ mpc' = "done"
    /\ UNCHANGED <<results, i>>

\* lines 228-231: testCloudinaryMigration rethrows
TestFailed ==
    /\ mpc' = "thrown"
    /\ UNCHANGED <<results, i>>

\* lines 40, 71: migrateProductToCloudinary, called on its own, returns
ProductReturned ==
    /\ mpc' = "done"
    /\ UNCHANGED <<results, i>>

\* lines 73-76: migrateProductToCloudinary, called on its own, rethrows
ProductThrew ==
    /\ mpc' = "thrown"
    /\ UNCHANGED <<results, i>>

\* migrateProductToCloudinary returns to the entry point that called it
Returned ==
    IF entry = "test" THEN TestMigrated
    ELSE IF entry = "product" THEN ProductReturned
    ELSE Migrated

\* migrateProductToCloudinary throws to the entry point that called it
Threw(message) ==
    IF entry = "test" THEN TestFailed
    ELSE IF entry = "product" THEN ProductThrew
    ELSE Failed(message)

\* lines 135-140, 28-49 and cloudinary.ts 80-94: the loop body starts for
\* productsToMigrate[i]; migrateProductToCloudinary picks the URL and
\* uploadFromUrl posts it to the CDN (method 1)
BeginProduct ==
    /\ mpc = "iterate"
    /\ i < Len(productsToMigrate)
    /\ processed' = Append(processed, product.id)
    /\ firebaseUrl' = PickFirebaseUrl(product)
    /\ cloudinaryUrl' = NoUrl
    /\ IF PickFirebaseUrl(product) = NoUrl
       THEN \* lines 38-41: returns null
            /\ Migrated
            /\ UNCHANGED requests
       ELSE /\ requests' = Append(requests, UploadRequest(product.id))
            /\ mpc' = "fetchUpload"
            /\ UNCHANGED <<results, i>>
    /\ UNCHANGED <<entry, db, apiSecret, docs, productsToMigrate, thrown>>
    /\ UNCHANGED <<compressVars, storeVars>>

\* lines 52-70: with db set, updateDoc is awaited
StartUpdate(url) ==
    /\ cloudinaryUrl' = url
    /\ mpc' = IF db THEN "updateDoc" ELSE "noUpdate"

\* the response of method 1 with the failure thrown to the caller at once,
\* without the proxy method
FetchUploadNoFallback(ok) ==
    /\ mpc = "fetchUpload"
    /\ IF ok
       THEN /\ StartUpdate(SecureUrl)
            /\ UNCHANGED <<results, i, thrown>>
       ELSE /\ Threw("Cloudinary fetch upload failed")
            /\ thrown' = Append(thrown, product.id)
            /\ UNCHANGED cloudinaryUrl
    /\ UNCHANGED <<entry, db, apiSecret, docs, productsToMigrate, firebaseUrl,
                   processed, requests>>
    /\ UNCHANGED <<compressVars, storeVars>>

\* cloudinary.ts 96-120: the response of method 1
FetchUploadResponds(ok) ==
    /\ mpc = "fetchUpload"
    /\ IF ok
       THEN StartUpdate(SecureUrl)
       ELSE \* lines 115-119, 139-141: the proxy download starts
            /\ mpc' = "proxyFetch"
            /\ UNCHANGED cloudinaryUrl
    /\ UNCHANGED <<entry, db, apiSecret, docs, productsToMigrate, i, results,
                   firebaseUrl, processed, requests, thrown>>
    /\ UNCHANGED <<compressVars, storeVars>>

\* cloudinary.ts 141-158 and 25-42: the response of the proxy download
ProxyFetchResponds(ok) ==
    /\ mpc = "proxyFetch"
    /\ IF ok /\ apiSecret
       THEN \* uploadToCloudinary posts the downloaded file
            /\ requests' = Append(requests, UploadRequest(product.id))
            /\ mpc' = "proxyUpload"
            /\ UNCHANGED <<results, i, thrown>>
       ELSE \* the proxy failed, or uploadToCloudinary threw for want of the
            \* secret: uploadFromUrlManual throws (lines 153-158, 172-181)
            /\ Threw("Migration failed due to CORS restrictions")
            /\ thrown' = Append(thrown, product.id)
            /\ UNCHANGED requests
    /\ UNCHANGED <<entry, db, apiSecret, docs, productsToMigrate, firebaseUrl,
                   cloudinaryUrl, processed>>
    /\ UNCHANGED <<compressVars, storeVars>>

\* cloudinary.ts 44-69, 151-158: the response of uploadToCloudinary's post
ProxyUploadResponds(ok) ==
    /\ mpc = "proxyUpload"
    /\ IF ok
       THEN /\ StartUpdate(SecureUrlProxy)
            /\ UNCHANGED <<results, i, thrown>>
       ELSE /\ Threw("Migration failed due to CORS restrictions")
            /\ thrown' = Append(thrown, product.id)
            /\ UNCHANGED cloudinaryUrl
    /\ UNCHANGED <<entry, db, apiSecret, docs, productsToMigrate, firebaseUrl,
                   processed, requests>>
    /\ UNCHANGED <<compressVars, storeVars>>

\* lines 68-72: updateDoc settles
UpdateDocResponds(ok) ==
    /\ mpc = "updateDoc"
    /\ IF ok
       THEN /\ docs' = [docs EXCEPT ![product.id] =
                          UpdatedDoc(@, product, firebaseUrl, cloudinaryUrl)]
            /\ Returned
            /\ UNCHANGED thrown
       ELSE /\ Threw("updateDoc failed")
            /\ thrown' = Append(thrown, product.id)
            /\ UNCHANGED docs
    /\ UNCHANGED <<entry, db, apiSecret, productsToMigrate, firebaseUrl, cloudinaryUrl,
                   processed, requests>>
    /\ UNCHANGED <<compressVars, storeVars>>

\* line 147: the timer of the inter-item delay fires
DelayElapses ==
    /\ mpc = "delay"
    /\ requests' = Append(requests, DelayElapsed)
    /\ i' = i + 1
    /\ mpc' = "iterate"
    /\ UNCHANGED <<entry, db, apiSecret, docs, productsToMigrate, results, firebaseUrl,
                   cloudinaryUrl, processed, thrown>>
    /\ UNCHANGED <<compressVars, storeVars>>

\* lines 158-183: the loop is over; skipped is set and results returned
MigrateAllReturns ==
    /\ mpc = "iterate"
    /\ ~(i < Len(productsToMigrate))
    /\ results' = [results EXCEPT !.skipped = results.total - Len(productsToMigrate)]
    /\ mpc' = "done"
    /\ UNCHANGED <<entry, db, apiSecret, docs, productsToMigrate, i, firebaseUrl,
                   cloudinaryUrl, processed, requests, thrown>>
    /\ UNCHANGED <<compressVars, storeVars>>

MigrateNext ==
    \/ MigrateAllStart
    \/ GetDocsResolves
    \/ GetDocsRejects
    \/ BeginProduct
    \/ \E ok \in BOOLEAN : FetchUploadResponds(ok)
    \/ \E ok \in BOOLEAN : ProxyFetchResponds(ok)
    \/ \E ok \in BOOLEAN : ProxyUploadResponds(ok)
    \/ \E ok \in BOOLEAN : UpdateDocResponds(ok)
    \/ DelayElapses
    \/ MigrateAllReturns

MigrateSpec == MigrateInit /\ [][MigrateNext]_vars

(***************************************************************************)
(* Both entry points, testCloudinaryMigration and migrateAllToCloudinary,  *)
(* called one after the other on the same store.                           *)
(***************************************************************************)
\* lines 193-203: testCloudinaryMigration is called
TestStart ==
    /\ mpc = "idle"
    /\ entry' = "test"
    /\ mpc' = IF db THEN "testGetDocs" ELSE "thrown"
    /\ UNCHANGED <<db, apiSecret, docs, productsToMigrate, i, results, firebaseUrl,
                   cloudinaryUrl, processed, requests, thrown>>
    /\ UNCHANGED <<compressVars, storeVars>>

\* lines 203-226, 28-49 and cloudinary.ts 80-94: getDocs resolves; testProduct
\* is the first product with a Firebase Storage URL in either field, and
\* migrateProductToCloudinary is called for it
TestGetDocsResolves ==
    /\ mpc = "testGetDocs"
    /\ LET found == SelectSeq(docs, hasFirebaseUrl)
       IN  IF Len(found) = 0
           THEN \* lines 218-221
                /\ mpc' = "done"
                /\ UNCHANGED <<productsToMigrate, i, firebaseUrl, cloudinaryUrl,
                               processed, requests>>
           ELSE /\ productsToMigrate' = <<found[1]>>
                /\ i' = 0
                /\ processed' = Append(processed, found[1].id)
                /\ firebaseUrl' = PickFirebaseUrl(found[1])
                /\ cloudinaryUrl' = NoUrl
                /\ requests' = Append(requests, UploadRequest(found[1].id))
                /\ mpc' = "fetchUpload"
    /\ UNCHANGED <<entry, db, apiSecret, docs, results, thrown>>
    /\ UNCHANGED <<compressVars, storeVars>>

\* lines 203, 228-231: getDocs rejects
TestGetDocsRejects ==
    /\ mpc = "testGetDocs"
    /\ mpc' = "thrown"
    /\ UNCHANGED <<entry, db, apiSecret, docs, productsToMigrate, i, results,
                   firebaseUrl, cloudinaryUrl, processed, requests, thrown>>
    /\ UNCHANGED <<compressVars, storeVars>>

\* the entry point has returned or rejected; the store keeps its documents
\* and the next call starts with fresh locals
Rerun ==
    /\ mpc \in {"done", "thrown"}
    /\ mpc' = "idle"
    /\ entry' = "none"
    /\ productsToMigrate' = <<>>
    /\ i' = 0
    /\ results' = NoResults
    /\ firebaseUrl' = NoUrl
    /\ cloudinaryUrl' = NoUrl
    /\ processed' = <<>>
    /\ requests' = <<>>
    /\ thrown' = <<>>
    /\ UNCHANGED <<db, apiSecret, docs>>
    /\ UNCHANGED <<compressVars, storeVars>>

EntryNext ==
    \/ MigrateNext
    \/ TestStart
    \/ TestGetDocsResolves
    \/ TestGetDocsRejects
    \/ Rerun

EntrySpec == MigrateInit /\ [][EntryNext]_vars

(***************************************************************************)
(* migrateProductToCloudinary called on its own, for any product of the    *)
(* store, with or without a Firestore handle.                              *)
(***************************************************************************)
\* lines 28-49 and cloudinary.ts 80-94: migrateProductToCloudinary(docs[k])
CallProduct(k) ==
    /\ mpc = "idle"
    /\ k <= Len(docs)
    /\ entry' = "product"
    /\ productsToMigrate' = <<docs[k]>>
    /\ i' = 0
    /\ processed' = Append(processed, docs[k].id)
    /\ firebaseUrl' = PickFirebaseUrl(docs[k])
    /\ cloudinaryUrl' = NoUrl
    /\ IF PickFirebaseUrl(docs[k]) = NoUrl
       THEN \* lines 38-41: returns null
            /\ mpc' = "done"
            /\ UNCHANGED requests
       ELSE /\ requests' = Append(requests, UploadRequest(docs[k].id))
            /\ mpc' = "fetchUpload"
    /\ UNCHANGED <<db, apiSecret, docs, results, thrown>>
    /\ UNCHANGED <<compressVars, storeVars>>

\* lines 52, 71: db is null, the update is skipped and cloudinaryUrl returned
SkipUpdateReturns ==
    /\ mpc = "noUpdate"
    /\ Returned
    /\ UNCHANGED <<entry, db, apiSecret, docs, productsToMigrate, firebaseUrl,
                   cloudinaryUrl, processed, requests, thrown>>
    /\ UNCHANGED <<compressVars, storeVars>>

ProductNext ==
    \/ \E k \in 1..MaxProducts : CallProduct(k)
    \/ \E ok \in BOOLEAN : FetchUploadResponds(ok)
    \/ \E ok \in BOOLEAN : ProxyFetchResponds(ok)
    \/ \E ok \in BOOLEAN : ProxyUploadResponds(ok)
    \/ \E ok \in BOOLEAN : UpdateDocResponds(ok)
    \/ SkipUpdateReturns

ProductSpec == MigrateInit /\ [][ProductNext]_vars

(***************************************************************************)
(* The product store and authentication of lib/supabase.ts: signUp,        *)
(* signIn, signOut, addProduct, updateProduct, deleteProduct.  At most one *)
(* authentication call and one product operation are in flight at a time.  *)
(* "db", "auth" and "storage" are all non-null exactly when the Firebase   *)
(* app is configured, so the variable db stands for each.                  *)
(***************************************************************************)
StoreUrls == {NoUrl, CloudinaryUrlA, CloudinaryUrlBare, FirebaseUrlQ, FirebaseUrlA,
              OtherUrlA}

\* "demo": admin@rishvigems.com / admin123; "account": any other pair
Credentials == {"demo", "account"}

ProductOps == {"addProduct", "updateProduct", "deleteProduct"}

StoreInit ==
    /\ CompressIdle
    /\ entry = "none"
    /\ db \in BOOLEAN
    /\ apiSecret \in BOOLEAN
    /\ docs = <<>>
    /\ productsToMigrate = <<>>
    /\ i = 0
    /\ results = NoResults
    /\ mpc = "idle"
    /\ firebaseUrl = NoUrl
    /\ cloudinaryUrl = NoUrl
    /\ processed = <<>>
    /\ requests = <<>>
    /\ thrown = <<>>
    /\ currentUser \in {FALSE, db}
    /\ apc = "idle"
    /\ aop = NoAuthCall
    /\ aoutcome = "none"
    /\ awaited \in BOOLEAN
    /\ products \in [1..MaxStoreProducts -> StoreUrls \cup {Absent}]
    /\ spc = "idle"
    /\ sop = NoCall
    /\ outcome = "none"
    /\ imageOutcome = "none"

\* the caller: one that awaits each call makes the next call when no call is
\* in flight; one that does not may call while another call is in flight
MayCall == awaited => (spc = "idle" /\ apc = "idle")

\* an authentication function returns or throws before it awaits anything
AuthEnds(kind, cred, how) ==
    /\ apc = "idle"
    /\ MayCall
    /\ aop' = [kind |-> kind, cred |-> cred]
    /\ aoutcome' = how
    /\ UNCHANGED <<currentUser, apc, awaited, products, spc, sop, outcome, imageOutcome>>
    /\ UNCHANGED <<compressVars, migrateVars>>

\* supabase.ts 385, 414, 429: an authentication function calls the auth
\* service and awaits its answer
AuthCall(kind, cred) ==
    /\ apc = "idle"
    /\ MayCall
    /\ aop' = [kind |-> kind, cred |-> cred]
    /\ apc' = "pending"
    /\ aoutcome' = "none"
    /\ UNCHANGED <<currentUser, awaited, products, spc, sop, outcome, imageOutcome>>
    /\ UNCHANGED <<compressVars, migrateVars>>

\* the auth service answers the call in flight: the function returns with
\* auth.currentUser set to user, or throws with auth.currentUser as it was
AuthResponds(ok, user) ==
    /\ apc = "pending"
    /\ apc' = "idle"
    /\ aoutcome' = IF ok THEN "returned" ELSE "threw"
    /\ currentUser' = IF ok THEN user ELSE currentUser
    /\ UNCHANGED <<aop, awaited, products, spc, sop, outcome, imageOutcome>>
    /\ UNCHANGED <<compressVars, migrateVars>>

\* supabase.ts 368-385: signUp(email, password) up to the
\* createUserWithEmailAndPassword call; without auth it returns a demo user
SignUp ==
    IF ~db THEN AuthEnds("signUp", "account", "returned")
    ELSE AuthCall("signUp", "account")

\* supabase.ts 385-390: createUserWithEmailAndPassword answers
SignUpResponds(ok) ==
    /\ aop.kind = "signUp"
    /\ AuthResponds(ok, TRUE)

\* supabase.ts 393-414: signIn(email, password) up to the
\* signInWithEmailAndPassword call; the demo credentials return a demo user,
\* and without auth any other credentials throw
SignIn(cred) ==
    IF cred = "demo" THEN AuthEnds("signIn", cred, "returned")
    ELSE IF ~db THEN AuthEnds("signIn", cred, "threw")
    ELSE AuthCall("signIn", cred)

\* supabase.ts 414-419: signInWithEmailAndPassword answers
SignInResponds(ok) ==
    /\ aop.kind = "signIn"
    /\ AuthResponds(ok, TRUE)

\* supabase.ts 422-429: signOut() up to the firebaseSignOut call; without
\* auth it returns
SignOut ==
    IF ~db THEN AuthEnds("signOut", "none", "returned")
    ELSE AuthCall("signOut", "none")

\* supabase.ts 429-433: firebaseSignOut answers
SignOutResponds(ok) ==
    /\ aop.kind = "signOut"
    /\ AuthResponds(ok, FALSE)

\* the checks at the head of a product operation without the one of
\* auth.currentUser
GuardedNoAuth(kind, id, url, next) ==
    /\ spc = "idle"
    /\ MayCall
    /\ sop' = [kind |-> kind, id |-> id, url |-> url]
    /\ IF db
       THEN spc' = next /\ outcome' = "none"
       ELSE spc' = "idle" /\ outcome' = "threw"
    /\ imageOutcome' = "none"
    /\ UNCHANGED <<currentUser, apc, aop, aoutcome, awaited, products>>
    /\ UNCHANGED <<compressVars, migrateVars>>

\* supabase.ts 277-287, 308-318, 337-347: a product operation is called; it
\* throws unless db is set and auth.currentUser is non-null, else goes on
Guarded(kind, id, url, next) ==
    /\ spc = "idle"
    /\ MayCall
    /\ sop' = [kind |-> kind, id |-> id, url |-> url]
    /\ IF db /\ currentUser
       THEN spc' = next /\ outcome' = "none"
       ELSE spc' = "idle" /\ outcome' = "threw"
    /\ imageOutcome' = "none"
    /\ UNCHANGED <<currentUser, apc, aop, aoutcome, awaited, products>>
    /\ UNCHANGED <<compressVars, migrateVars>>

\* the operation in flight ends
Ends(how) ==
    /\ spc' = "idle"
    /\ outcome' = how

\* supabase.ts 276-297: addProduct(product) up to the addDoc call
AddProduct(url) ==
    /\ \E k \in 1..MaxStoreProducts : products[k] = Absent
    /\ Guarded("addProduct", 0, url, "addDoc")

\* supabase.ts 297-298, 301-304: addDoc answers; the document is in the
\* collection and getDoc is called, or the call throws
StoreAddDocResponds(ok) ==
    /\ spc = "addDoc"
    /\ IF ok
       THEN LET id == CHOOSE k \in 1..MaxStoreProducts :
                        /\ products[k] = Absent
                        /\ \A j \in 1..(k - 1) : products[j] # Absent
            IN  /\ products' = [products EXCEPT ![id] = sop.url]
                /\ sop' = [sop EXCEPT !.id = id]
                /\ spc' = "addGetDoc"
                /\ UNCHANGED outcome
       ELSE /\ Ends("threw")
            /\ UNCHANGED <<products, sop>>
    /\ UNCHANGED <<currentUser, apc, aop, aoutcome, awaited, imageOutcome>>
    /\ UNCHANGED <<compressVars, migrateVars>>

\* supabase.ts 298-304: getDoc answers; addProduct returns the product read
\* back, or throws with the document left in the collection
StoreAddGetDocResponds(readOk) ==
    /\ spc = "addGetDoc"
    /\ Ends(IF readOk THEN "returned" ELSE "threw")
    /\ UNCHANGED <<currentUser, apc, aop, aoutcome, awaited, products, sop, imageOutcome>>
    /\ UNCHANGED <<compressVars, migrateVars>>

\* supabase.ts 307-326: updateProduct(id, updates) up to the updateDoc call
UpdateProduct(id, url) ==
    /\ id \in 1..MaxStoreProducts
    /\ Guarded("updateProduct", id, url, "updDoc")

\* supabase.ts 326-328, 330-333: updateDoc answers (it rejects for a missing
\* document); the document is updated and getDoc is called, or the call throws
StoreUpdateDocResponds(ok) ==
    /\ spc = "updDoc"
    /\ IF ok /\ products[sop.id] # Absent
       THEN /\ products' = [products EXCEPT ![sop.id] = sop.url]
            /\ spc' = "updGetDoc"
            /\ UNCHANGED outcome
       ELSE /\ Ends("threw")
            /\ UNCHANGED products
    /\ UNCHANGED <<currentUser, apc, aop, aoutcome, awaited, sop, imageOutcome>>
    /\ UNCHANGED <<compressVars, migrateVars>>

\* supabase.ts 328-333: getDoc answers; updateProduct returns the product
\* read back, or throws with the update left in the document
StoreUpdateGetDocResponds(readOk) ==
    /\ spc = "updGetDoc"
    /\ Ends(IF readOk THEN "returned" ELSE "threw")
    /\ UNCHANGED <<currentUser, apc, aop, aoutcome, awaited, products, sop, imageOutcome>>
    /\ UNCHANGED <<compressVars, migrateVars>>

\* supabase.ts 336-352: deleteProduct(id) up to the getDoc call
DeleteProduct(id) ==
    /\ id \in 1..MaxStoreProducts
    /\ Guarded("deleteProduct", id, NoUrl, "delGetDoc")

\* supabase.ts 242-267 and cloudinary.ts 188-200: the request
\* deleteImageFromStorage makes for imageUrl, if any
ImageRequest(imageUrl) ==
    IF includesCloudinary(imageUrl)
    THEN IF apiSecret /\ hasPublicId(imageUrl) THEN "cdn" ELSE "none"
    ELSE IF db /\ isFirebaseStorageUrl(imageUrl) /\ hasStoragePath(imageUrl)
    THEN "storage"
    ELSE "none"

\* supabase.ts 352-361: getDoc answers; for a document with an image_url
\* deleteImageFromStorage is called, else deleteDoc
StoreGetDocResponds(ok) ==
    /\ spc = "delGetDoc"
    /\ IF ~ok
       THEN /\ Ends("threw")
            /\ UNCHANGED <<sop, imageOutcome>>
       ELSE /\ sop' = [sop EXCEPT !.url = products[sop.id]]
            /\ UNCHANGED outcome
            /\ IF products[sop.id] = Absent \/ ~Truthy(products[sop.id])
               THEN spc' = "delDoc" /\ imageOutcome' = "none"
               ELSE IF ImageRequest(products[sop.id]) = "none"
               THEN spc' = "delDoc" /\ imageOutcome' = "skipped"
               ELSE spc' = "delImage" /\ imageOutcome' = "requested"
    /\ UNCHANGED <<currentUser, apc, aop, aoutcome, awaited, products>>
    /\ UNCHANGED <<compressVars, migrateVars>>

\* the image deletion whose failure is thrown to deleteProduct
ImageDeleteThrows(ok) ==
    /\ spc = "delImage"
    /\ imageOutcome' = IF ok THEN "ok" ELSE "failed"
    /\ IF ok THEN spc' = "delDoc" /\ UNCHANGED outcome ELSE Ends("threw")
    /\ UNCHANGED <<currentUser, apc, aop, aoutcome, awaited, products, sop>>
    /\ UNCHANGED <<compressVars, migrateVars>>

\* supabase.ts 247, 261, 268-273 and cloudinary.ts 213-233: the destroy
\* request or deleteObject answers; an error is logged, and deleteDoc is
\* called either way (supabase.ts 361)
ImageDeleteResponds(ok) ==
    /\ spc = "delImage"
    /\ imageOutcome' = IF ok THEN "ok" ELSE "failed"
    /\ spc' = "delDoc"
    /\ UNCHANGED <<currentUser, apc, aop, aoutcome, awaited, products, sop, outcome>>
    /\ UNCHANGED <<compressVars, migrateVars>>

\* supabase.ts 361-364: deleteDoc answers
StoreDeleteDocResponds(ok) ==
    /\ spc = "delDoc"
    /\ IF ok
       THEN /\ products' = [products EXCEPT ![sop.id] = Absent]
            /\ Ends("returned")
       ELSE /\ Ends("threw")
            /\ UNCHANGED products
    /\ UNCHANGED <<currentUser, apc, aop, aoutcome, awaited, sop, imageOutcome>>
    /\ UNCHANGED <<compressVars, migrateVars>>

StoreNext ==
    \/ SignUp
    \/ \E ok \in BOOLEAN : SignUpResponds(ok)
    \/ \E cred \in Credentials : SignIn(cred)
    \/ \E ok \in BOOLEAN : SignInResponds(ok)
    \/ SignOut
    \/ \E ok \in BOOLEAN : SignOutResponds(ok)
    \/ \E url \in StoreUrls : AddProduct(url)
    \/ \E ok \in BOOLEAN : StoreAddDocResponds(ok)
    \/ \E readOk \in BOOLEAN : StoreAddGetDocResponds(readOk)
    \/ \E id \in 1..MaxStoreProducts, url \in StoreUrls : UpdateProduct(id, url)
    \/ \E ok \in BOOLEAN : StoreUpdateDocResponds(ok)
    \/ \E readOk \in BOOLEAN : StoreUpdateGetDocResponds(readOk)
    \/ \E id \in 1..MaxStoreProducts : DeleteProduct(id)
    \/ \E ok \in BOOLEAN : StoreGetDocResponds(ok)
    \/ \E ok \in BOOLEAN : ImageDeleteResponds(ok)
    \/ \E ok \in BOOLEAN : StoreDeleteDocResponds(ok)

StoreSpec == StoreInit /\ [][StoreNext]_vars

\* the calls made one after the other: each is awaited before the next
AwaitedStoreInit == StoreInit /\ awaited
AwaitedStoreSpec == AwaitedStoreInit /\ [][StoreNext]_vars

(***************************************************************************)
(* Claims about compressImage and smartCompress                            *)
(***************************************************************************)

\* C1: after the resize step of a compressImage call both dimensions fit the
\* maxima of that call: width <= maxWidth and height <= maxHeight.
C1_ResizeFitsMaxima ==
    pc = "encoding" =>
        /\ width.n <= options.maxWidth * width.d
        /\ height.n <= options.maxHeight * height.d

\* C2: when the attempt budget is exhausted without an attempt meeting the
\* ceiling, the returned result is the smallest of all results obtained: no
\* result obtained during the call is smaller than the one returned.
C2_ExhaustedReturnsSmallest ==
    (pc = "done" /\ phase = "fallback" /\ best > 0) =>
        returned.compressedSize <= best

\* C3: if no attempt produced an encoded output, the call does not return a
\* result that carries the unmodified original file.
C3_NoOutputNeverReturnsOriginal ==
    (pc = "done" /\ blobs = 0) => returned.file # "original"

\* C4: when the image load errors, the decode step is attempted exactly once
\* in the call, and the call does not go on to return a result.
C4_DecodeFailureNotRetried ==
    (loadErrors > 0 /\ encodes = 0) => (loads = 1 /\ returned = NoResult)

\* C5: smartCompress returns from inside the retry loop exactly when the
\* attempt's size is <= targetSizeKB * 1.1; it returns that attempt's result,
\* starts nothing after it, and a result returned before the budget is
\* exhausted is never above the bound.
C5_ReturnsInLoopIffWithinTolerance ==
    /\ [][(pc = "resolved" /\ phase = "loop") =>
            IF result.compressedSize * 10 <= targetSizeKB * 11
            THEN pc' = "done" /\ returned' = result
                 /\ loads' = loads /\ encodes' = encodes
            ELSE pc' = "loop" /\ returned' = NoResult]_vars
    /\ [][pc = "done" => pc' = "done" /\ loads' = loads /\ encodes' = encodes]_vars
    /\ []((pc = "done" /\ phase = "loop") =>
            returned.compressedSize * 10 <= targetSizeKB * 11)

\* a call that returned from the loop, after an earlier attempt missed the
\* bound, with a result above the target but inside the tolerance
C5_Witness ==
    /\ pc = "done"
    /\ phase = "loop"
    /\ attempt >= 1
    /\ returned.compressedSize > targetSizeKB
    /\ returned.compressedSize * 10 <= targetSizeKB * 11

\* C6: every call terminates, and the retry loop starts at most 5 attempts,
\* whatever each attempt does.
C6_Terminates ==
    /\ <>(pc = "done")
    /\ [](attempt <= 5)
    /\ [](phase = "loop" => loads <= 5)

\* a call that returned after five attempts of which some failed to decode,
\* some failed to encode and some stayed above the ceiling
C6_Witness ==
    /\ pc = "done"
    /\ attempt = 5
    /\ loadErrors > 0
    /\ blobs > 0
    /\ loads > loadErrors + blobs

\* C10: for a file whose size is at or below the target, smartCompress makes
\* exactly one encode, at the initial quality, and returns its result.
C10_SmallFileSingleEncode ==
    file.size <= targetSizeKB =>
        /\ encodes <= 1
        /\ encodes = 1 => encQ = initialQuality
        /\ pc = "done" => (attempt = 0 /\ returned = result /\ result # NoResult)


(***************************************************************************)
(* Claims about migrateAllToCloudinary                                     *)
(***************************************************************************)

\* C7: the selected products are processed one at a time in list order, each
\* exactly once; a failure of one never aborts the batch, and when the call
\* returns every selected product has been processed.
C7_EveryProductProcessedOnceInOrder ==
    /\ Len(processed) <= Len(productsToMigrate)
    /\ \A k \in 1..Len(processed) : processed[k] = productsToMigrate[k].id
    /\ Len(processed) > 0 => mpc # "thrown"
    /\ mpc = "done" => Len(processed) = Len(productsToMigrate)

\* a batch of three that returned although its first product failed
C7_Witness ==
    /\ mpc = "done"
    /\ Len(processed) >= 3
    /\ Len(thrown) >= 1
    /\ thrown[1] = processed[1]

\* C8: when the call returns, migrated + failed is the number of selected
\* products, failed is the length of errors, and errors holds one entry, in
\* order, for each product whose migration threw.
C8_CountsMatchOutcomes ==
    mpc = "done" =>
        /\ results.migrated + results.failed = Len(productsToMigrate)
        /\ results.failed = Len(results.errors)
        /\ Len(results.errors) = Len(thrown)
        /\ \A k \in 1..Len(thrown) :
              \E j \in 1..Len(productsToMigrate) :
                  /\ productsToMigrate[j].id = thrown[k]
                  /\ results.errors[k].product = productsToMigrate[j].name

\* a returned batch of three in which the second product alone failed
C8_Witness ==
    /\ mpc = "done"
    /\ Len(productsToMigrate) >= 3
    /\ thrown = <<productsToMigrate[2].id>>
    /\ results.migrated = Len(productsToMigrate) - 1

\* C9: two CDN upload requests of different products are never issued
\* without the inter-item delay between them.
C9_DelayBetweenProducts ==
    \A k \in 1..(Len(requests) - 1) :
        (requests[k].kind = "upload" /\ requests[k + 1].kind = "upload")
            => requests[k].product = requests[k + 1].product


\* C11: smartCompress applied, with the same target, to the file an earlier
\* call returned within the ceiling returns that file unchanged: the same
\* byte size, after a single attempt making a single encode.
C11_ReapplyReturnsFileUnchanged ==
    (call = 2 /\ pc = "done") =>
        /\ returned.compressedSize = file.size
        /\ attempt = 0
        /\ encodes = 1


\* C12: over the successive canvas.toBlob calls of one smartCompress call
\* (second encodes and the fallback call included) the quality passed never
\* increases from one call to the next.
C12_QualityNeverIncreases ==
    [][(encodes > 0 /\ encodes' = encodes + 1) => encQ' <= encQ]_vars


RECURSIVE Gcd(_, _)
Gcd(a, b) == IF b = 0 THEN a ELSE Gcd(b, a % b)

\* the resize step has run for the call in flight
Resized == pc \in {"encoding", "encodingFurther", "resolved"}

\* C13: the resize step preserves the aspect ratio: width / height after it
\* differs from the input's width / height by less than 0.01.  With
\* width / height = a / b in lowest terms, |a / b - w / h| < 1 / 100.
C13_ResizePreservesAspectRatio ==
    Resized =>
        LET num == width.n * height.d
            den == width.d * height.n
            g == Gcd(num, den)
            a == num \div g
            b == den \div g
            diff == a * file.height - file.width * b
        IN  /\ den > 0
            /\ (IF diff < 0 THEN -diff ELSE diff) * 100 < b * file.height

\* an image larger than the maxima on both axes, scaled to a fractional height
C13_Witness ==
    /\ Resized
    /\ file.width = 4001
    /\ file.height = 3000
    /\ width = Whole(1920)
    /\ height.n % height.d # 0

\* C14: compressImage never upscales: the image it outputs (the canvas it
\* draws and encodes) is no wider and no higher than the input image, and
\* when both input dimensions are within the maxima the output dimensions,
\* computed and drawn, equal the input dimensions.
C14_NeverUpscales ==
    Resized =>
        /\ canvas.width <= file.width
        /\ canvas.height <= file.height
        /\ (file.width <= options.maxWidth /\ file.height <= options.maxHeight) =>
              /\ width = Whole(file.width)
              /\ height = Whole(file.height)
              /\ canvas = [width |-> file.width, height |-> file.height]

\* an image narrower than maxWidth whose height alone exceeds maxHeight: the
\* height computed is the double next above the input's 1090, and the canvas
\* is 1094 x 1090
C14_Witness ==
    /\ Resized
    /\ file.width = 1094
    /\ file.height = 1090
    /\ height = [n |-> 1094 * 1090, d |-> 1094, ulp |-> 1]
    /\ canvas = [width |-> 1094, height |-> 1090]


\* C15: when the decoding of the source image fails on every load, no
\* canvas.toBlob call is made during the smartCompress call: as long as every
\* load that has finished has failed, the number of encode calls is zero.
C15_NoEncodeWhenEveryLoadFails ==
    (loads > 0 /\ loadErrors = loads - (IF pc = "decoding" THEN 1 ELSE 0)) =>
        encodes = 0

\* smartCompress has returned after the load failed in every compressImage call
C15_Witness ==
    /\ pc = "done"
    /\ loads = maxAttempts + 1
    /\ loadErrors = loads
    /\ encodes = 0


\* C16: in the migration every legacy image is compressed before it is
\* uploaded to the CDN: whenever an upload request has been sent, the
\* image compression has run (it has loaded and encoded an image).
C16_CompressedBeforeUpload ==
    (\E k \in 1..Len(requests) : requests[k].kind = "upload") =>
        (loads > 0 /\ encodes > 0)


\* C17: getRecommendedOptions puts every file size in exactly one band of the
\* documented table (> 5 MB: 0.6 and 300 KB; > 2 MB: 0.7 and 400 KB; > 1 MB:
\* 0.8 and 500 KB; otherwise 0.9 and 600 KB; always 1920 x 1080 and jpeg), so
\* that no smaller file is recommended a lower quality or a smaller target.
C17_RecommendedOptionsFollowTable ==
    pc \notin {"direct", "asIs"} =>
        /\ options.maxWidth = 1920
        /\ options.maxHeight = 1080
        /\ options.format = "jpeg"
        /\ file.size > 5120 =>
              (options.quality = 600000 /\ options.maxSizeKB = 300)
        /\ (2048 < file.size /\ file.size <= 5120) =>
              (options.quality = 700000 /\ options.maxSizeKB = 400)
        /\ (1024 < file.size /\ file.size <= 2048) =>
              (options.quality = 800000 /\ options.maxSizeKB = 500)
        /\ file.size <= 1024 =>
              (options.quality = 900000 /\ options.maxSizeKB = 600)
        /\ \A s \in DirectFileSizesKB :
              s <= file.size =>
                  /\ getRecommendedOptions(s).quality >= options.quality
                  /\ getRecommendedOptions(s).maxSizeKB >= options.maxSizeKB

\* a file of exactly 5 MB is in the "> 2 MB" band
C17_Witness ==
    /\ pc \notin {"direct", "asIs"}
    /\ file.size = 5120
    /\ options.quality = 700000
    /\ options.maxSizeKB = 400


\* C18: every quality factor a smartCompress call passes to canvas.toBlob
\* lies in (0, 1], and more precisely between the floor 0.1 and the starting
\* value 0.9, whatever the target and the sizes the encoder produces.
C18_QualityWithinFloorAndStart ==
    encodes > 0 =>
        /\ 0 < encQ
        /\ encQ <= 1000000
        /\ minQuality <= encQ
        /\ encQ <= initialQuality

\* a second encode inside the retry loop whose proportional quality fell
\* below the floor and was raised to it
C18_Witness ==
    /\ pc = "encodingFurther"
    /\ phase = "loop"
    /\ encQ = minQuality
    /\ options.quality > minQuality


\* C19: on every normal return of migrateAllToCloudinary the counters add
\* up: total = migrated + skipped + failed, for every products collection,
\* one in which no product needs migration included.
C19_CountersAddUp ==
    mpc = "done" =>
        results.total = results.migrated + results.skipped + results.failed


\* migrateProductToCloudinary is uploading the product's image or writing
\* the product's document
Uploading == mpc \in {"fetchUpload", "proxyFetch", "proxyUpload", "updateDoc"}

\* C20: a product whose image_url already points at the CDN is never
\* uploaded again, whichever entry point runs (migrateAllToCloudinary or
\* testCloudinaryMigration): no upload and no store write happens for it.
C20_MigratedProductNotUploadedAgain ==
    Uploading => ~includesCloudinary(product.image_url)


\* C21: when migrateProductToCloudinary succeeds for a product, the
\* product's document has image_url equal to the CDN URL the upload returned
\* and old_firebase_url equal to the legacy URL that was uploaded.
C21_SuccessRecordsBothUrls ==
    [][(mpc = "updateDoc" /\ mpc' # "updateDoc" /\ thrown' = thrown) =>
          /\ cloudinaryUrl \in {SecureUrl, SecureUrlProxy}
          /\ isFirebaseStorageUrl(firebaseUrl)
          /\ docs'[product.id].image_url = cloudinaryUrl
          /\ docs'[product.id].old_firebase_url = firebaseUrl]_vars

\* a product that had the legacy URL in image_url only has been migrated:
\* the document now holds the CDN URL and the legacy URL
C21_Witness ==
    /\ mpc \in {"iterate", "delay", "done"}
    /\ Len(processed) > 0
    /\ thrown = <<>>
    /\ productsToMigrate[1].image_url = FirebaseUrlA
    /\ productsToMigrate[1].old_firebase_url = NoUrl
    /\ docs[productsToMigrate[1].id].image_url = SecureUrl
    /\ docs[productsToMigrate[1].id].old_firebase_url = FirebaseUrlA


\* C22: migrateProductToCloudinary changes nothing unless the upload
\* succeeded.  For a product without a legacy storage URL it returns null
\* with no CDN upload and no store write; when the CDN upload fails it
\* throws to its caller and the product's document is as it was; and the
\* store is only ever written after an upload that returned a CDN URL.
C22_NoChangeUnlessUploadSucceeded ==
    /\ [](entry = "product" =>
            /\ (mpc = "done" /\ ~hasFirebaseUrl(product)) =>
                  /\ cloudinaryUrl = NoUrl
                  /\ requests = <<>>
                  /\ docs[product.id] = product
            /\ mpc = "thrown" =>
                  /\ docs[product.id] = product
                  /\ thrown = <<product.id>>)
    /\ [][(mpc \in {"proxyFetch", "proxyUpload"}
             /\ mpc' \notin {"proxyFetch", "proxyUpload", "updateDoc", "noUpdate"}) =>
             (mpc' = "thrown" /\ docs' = docs)]_vars
    /\ [][docs' # docs =>
            (mpc = "updateDoc" /\ cloudinaryUrl \in {SecureUrl, SecureUrlProxy})]_vars

\* both upload methods failed for a product with a legacy URL: the call
\* threw after two upload requests and the document is as it was
C22_Witness ==
    /\ entry = "product"
    /\ mpc = "thrown"
    /\ hasFirebaseUrl(product)
    /\ Len(requests) = 2
    /\ cloudinaryUrl = NoUrl
    /\ docs[product.id] = product


\* uploadFromUrl is in flight
InUpload == mpc \in {"fetchUpload", "proxyFetch", "proxyUpload"}

\* uploadFromUrl has returned its URL to migrateProductToCloudinary
UploadReturned == mpc \in {"updateDoc", "noUpdate"}

\* C23: uploadFromUrl follows a fixed fallback order.  The server-side fetch
\* upload is the first request; the proxy download starts only from a failed
\* fetch upload; the call throws only from the proxy method, after the fetch
\* upload failed too; and the value returned is the secure URL of the first
\* method that succeeded.
C23_FixedFallbackOrder ==
    /\ [](mpc = "fetchUpload" =>
             (Len(requests) = 1 /\ requests[1] = UploadRequest(product.id)))
    /\ [][(mpc' = "proxyFetch" /\ mpc # "proxyFetch") =>
             (mpc = "fetchUpload" /\ cloudinaryUrl' = NoUrl)]_vars
    /\ [][(InUpload /\ thrown' # thrown) =>
             (mpc \in {"proxyFetch", "proxyUpload"} /\ Len(requests) >= 1)]_vars
    /\ [][(InUpload /\ UploadReturned') =>
             /\ mpc = "fetchUpload" => cloudinaryUrl' = SecureUrl
             /\ mpc = "proxyUpload" =>
                   (cloudinaryUrl' = SecureUrlProxy /\ Len(requests) = 2)
             /\ mpc # "proxyFetch"]_vars

\* the fetch upload failed and the proxy method returned the URL
C23_Witness ==
    /\ entry = "product"
    /\ UploadReturned
    /\ Len(requests) = 2
    /\ cloudinaryUrl = SecureUrlProxy


(***************************************************************************)
(* Claims about the product store                                          *)
(***************************************************************************)
\* C24: deleteProduct attempts the deletion of the product's image before it
\* deletes the document, and an error of the image deletion never blocks
\* the document deletion: whatever the image deletion answers, deleteDoc is
\* called next, and when deleteDoc succeeds the document is gone.
C24_ImageErrorNeverBlocksDelete ==
    /\ [](spc = "delDoc" =>
            /\ db /\ currentUser
            /\ (sop.url \notin {Absent, NoUrl} /\ ImageRequest(sop.url) # "none") =>
                  imageOutcome \in {"ok", "failed"}
            /\ products[sop.id] = sop.url)
    /\ [][(spc = "delImage" /\ spc' # "delImage") =>
             (spc' = "delDoc" /\ products' = products)]_vars
    /\ [][(spc = "delDoc" /\ outcome' = "returned") =>
             products'[sop.id] = Absent]_vars

\* deleteProduct returned with the document removed after the deletion of
\* its CDN image had failed
C24_Witness ==
    /\ sop.kind = "deleteProduct"
    /\ spc = "idle"
    /\ outcome = "returned"
    /\ imageOutcome = "failed"
    /\ includesCloudinary(sop.url)
    /\ products[sop.id] = Absent


\* a step that calls a product operation: none is in flight, and the
\* authentication call and the current user are as they were
ProductCallStep ==
    /\ spc = "idle"
    /\ sop'.kind \in ProductOps
    /\ UNCHANGED <<currentUser, apc, aop, aoutcome>>

\* a step that calls signIn with the demo credentials: no authentication
\* call is in flight, and the product operation is as it was
DemoSignInStep ==
    /\ apc = "idle"
    /\ aop'.kind = "signIn"
    /\ aop'.cred = "demo"
    /\ UNCHANGED <<spc, sop, outcome, imageOutcome>>

\* C25: in any sequence of signUp, signIn, signOut, addProduct,
\* updateProduct and deleteProduct calls, the store is written, a document
\* deleted or an image deletion issued only while db is set and
\* auth.currentUser is non-null; a product operation called otherwise throws
\* with the store unchanged; and a signIn with the demo credentials leaves
\* auth.currentUser as it was, so it never enables a write.
C25_WritesOnlyWhenAuthenticated ==
    /\ [](currentUser => db)
    /\ [](spc # "idle" => (db /\ currentUser))
    /\ [][products' # products => (db /\ currentUser)]_vars
    /\ [][(ProductCallStep /\ ~(db /\ currentUser)) =>
             (spc' = "idle" /\ outcome' = "threw" /\ products' = products)]_vars
    /\ [][DemoSignInStep =>
             (currentUser' = currentUser /\ products' = products)]_vars

\* with the store configured and nobody signed in, a signIn with the demo
\* credentials returned a user and the store is as it was
C25_WitnessDemo ==
    /\ db
    /\ ~currentUser
    /\ aop.kind = "signIn"
    /\ aop.cred = "demo"
    /\ aoutcome = "returned"

\* with the store configured and nobody signed in, deleteProduct of an
\* existing product threw and the product is still there
C25_Witness ==
    /\ db
    /\ ~currentUser
    /\ sop.kind = "deleteProduct"
    /\ spc = "idle"
    /\ outcome = "threw"
    /\ products[sop.id] \notin {Absent, NoUrl}

====
